---- MODULE Spec2Model ----
(***************************************************************************)
(* Model of src/conf.py: the retry wrapper with_retry (a tenacity retry    *)
(* configured with stop_after_attempt, wait_exponential, before_sleep_log  *)
(* and the retry_error_callback log_retry_error) and the paginated         *)
(* downloader download_space that uses it through get_page_count and the   *)
(* get_all_pages_from_space call site.                                     *)
(*                                                                         *)
(* Spec      : one invocation of download_space against a remote service   *)
(*             whose every attempt may succeed, raise ApiPermissionError   *)
(*             or raise any other (transient) exception.                   *)
(* SpecRetry : one call of an operation wrapped by                         *)
(*             with_retry(max_retries, reraise) for every max_retries in   *)
(*             1..MaxRetries and both values of reraise.                   *)
(***************************************************************************)
EXTENDS Integers, Sequences, FiniteSets, TLC

\* ---------------------------------------------------------------- bounds
MaxRetries  == 6    \* largest max_retries tried in SpecRetry
MaxFailures == 5    \* transient failures the remote may produce in one download
MaxTotal    == 5    \* largest totalSize the count call reports
MaxPageLen  == 3    \* longest page the remote returns (above the page size)
MaxItems    == 5    \* items the remote serves in one download
MaxCurrent  == 7    \* largest current_count given to log_progress
MaxShown    == 5    \* largest total_count given to log_progress
MaxElapsed  == 125  \* every elapsed time up to this many seconds is tried
MaxOps      == 4    \* facade operations made on CloudwatchLogger
MaxDays     == 1    \* elapsed times of up to this many days are tried

\* ------------------------------------------------------- program constants
DefaultMaxRetries == 5      \* with_retry(max_retries=5, ...)
DefaultReraise    == FALSE  \* with_retry(..., reraise: bool = False)
PageLimit         == 2      \* pages, start, limit = [], 0, 2
WaitMultiplier    == 1      \* wait_exponential(multiplier=1, ...)
WaitMin           == 1      \* wait_exponential(..., min=1, ...)
WaitMax           == 5      \* wait_exponential(..., max=5)
NoTotal           == -1     \* .get("totalSize") yielding None
Unassigned        == -2     \* a local of download_space that is not yet bound
bar_len           == 50     \* bar_len = 50

VARIABLES
    pc,             \* position of download_space, or "wrapped" for a bare wrapped call
    func,           \* name of the operation the current wrapper wraps
    args,           \* arguments of the current wrapped call (the offset; 0 otherwise)
    max_retries,    \* the wrapper's attempt limit
    reraise,        \* the wrapper's reraise flag
    rstate,         \* state of the retry loop of the current wrapped call
    attempt_number, \* retry_state.attempt_number: attempts made by the current call
    outcome,        \* retry_state.outcome: result or exception of the last attempt
    sleeps,         \* waits of the current wrapped call, in order
    retval,         \* what the wrapped call handed to its caller
    raised,         \* the exception the wrapped call raised to its caller
    failures,       \* transient failures produced by the remote so far
    log,            \* entries emitted through logger, in order
    pages_count,    \* download_space: pages_count
    pages,          \* download_space: pages
    start,          \* download_space: start
    calls,          \* every listPage attempt: [start, limit]
    count_calls,    \* number of count (cql) attempts
    served,         \* every item the remote returned in a page, in order
    progress,       \* every log_progress invocation: [current, total]
    result,         \* what download_space returned
    escaped,        \* the exception download_space let escape to its caller
    lp_state,       \* position of a log_progress call: "idle", "called" or "returned"
    lp_call,        \* arguments of the log_progress call: current, total, elapsed
    stdout,         \* what log_progress wrote to standard output
    loggers,        \* CloudwatchLogger._loggers: name -> instance
    lg,             \* the logging module's loggers: name -> level, handlers, propagate
    root_handlers,  \* whether the root logger has handlers installed
    cloud,          \* per name, how the cloud handler setup went
    init_runs,      \* per name, how often the body of __init__ was entered
    last_op,        \* the last facade operation and what it delivered
    n_ops           \* facade operations made so far

confVars == << pc, func, args, max_retries, reraise, rstate, attempt_number, outcome,
           sleeps, retval, raised, failures, log, pages_count, pages, start,
           calls, count_calls, served, progress, result, escaped >>

progVars == << lp_state, lp_call, stdout >>
loggerVars == << loggers, lg, root_handlers, cloud, init_runs, last_op, n_ops >>
otherVars == << progVars, loggerVars >>
vars == << confVars, otherVars >>

retryVars == << rstate, attempt_number, outcome, sleeps, retval, raised >>
fetchVars == << pages_count, pages, start, progress, result, escaped >>

\* ----------------------------------------------------------------- values
NoException == [kind |-> "none", attempt |-> 0]
NoOutcome   == [failed |-> FALSE, exc |-> NoException, isNone |-> TRUE,
                totalSize |-> NoTotal, page |-> << >>]
NoneValue   == [isNone |-> TRUE, totalSize |-> NoTotal, page |-> << >>]
NoResult    == [kind |-> "pending", pages |-> << >>]

Min(a, b) == IF a < b THEN a ELSE b
Max(a, b) == IF a > b THEN a ELSE b

RECURSIVE Pow2(_)
Pow2(n) == IF n <= 0 THEN 1 ELSE 2 * Pow2(n - 1)

RECURSIVE SumSeq(_)
SumSeq(s) == IF s = << >> THEN 0 ELSE Head(s) + SumSeq(Tail(s))

\* the schedule with the exponent taken from the attempt number itself
wait_exponential_from_attempt(n) ==
    Max(Max(0, WaitMin), Min(WaitMultiplier * Pow2(n), WaitMax))

\* wait_exponential(multiplier=1, min=1, max=5) applied after attempt n
wait_exponential(n) ==
    Max(Max(0, WaitMin), Min(WaitMultiplier * Pow2(n - 1), WaitMax))

\* a stop condition that allows one attempt too many
stop_after_attempt_exceeded(n) == n > max_retries

\* stop_after_attempt(max_retries)
stop_after_attempt(n) == n >= max_retries

\* what an attempt of the remote operation may raise
ExceptionKinds == {"Transient", "ApiPermissionError"}

\* how an attempt that raised exc is recorded
AttemptKind(exc) == IF exc.kind = "ApiPermissionError" THEN "permission" ELSE "transient"

\* a retry predicate that retries every exception
retry_if_exception(exc) == TRUE

\* retry_if_not_exception_type(ApiPermissionError)
retry_if_not_permission(exc) == exc.kind # "ApiPermissionError"

\* the before-sleep entry logged below warning level
BeforeSleepEntry_debug(n, s) ==
    [level |-> "DEBUG", src |-> "before_sleep", attempts |-> n, fn |-> func,
     args |-> args, sleep |-> s, traceback |-> FALSE]

\* the entries the wrapper and download_space emit
BeforeSleepEntry(n, s) ==
    [level |-> "WARNING", src |-> "before_sleep", attempts |-> n, fn |-> func,
     args |-> args, sleep |-> s, traceback |-> FALSE]

RetryErrorEntry(n) ==
    [level |-> "ERROR", src |-> "log_retry_error", attempts |-> n, fn |-> func,
     args |-> args, sleep |-> 0, traceback |-> TRUE]

NoPagesEntry ==
    [level |-> "WARNING", src |-> "download_space", attempts |-> 0, fn |-> "none",
     args |-> 0, sleep |-> 0, traceback |-> FALSE]

DownloadFailedEntry ==
    [level |-> "ERROR", src |-> "download_space", attempts |-> 0, fn |-> "none",
     args |-> 0, sleep |-> 0, traceback |-> TRUE]

\* the fresh records of a page of n items
FreshPage(n) == [i \in 1..n |-> Len(served) + i]

\* --------------------------------------------------------------- with_retry
\* entering a wrapped call: with_retry(m, r)(f)(a)
BeginCall(f, a, m, r) ==
    /\ func' = f
    /\ args' = a
    /\ max_retries' = m
    /\ reraise' = r
    /\ rstate' = "Attempting"
    /\ attempt_number' = 0
    /\ outcome' = NoOutcome
    /\ sleeps' = << >>
    /\ retval' = NoneValue
    /\ raised' = NoException

\* the remote call of one attempt, as seen by the bookkeeping of download_space
NoteAttempt(o, n) ==
    /\ calls' = IF func = "get_all_pages_from_space"
                THEN Append(calls, [start |-> args, limit |-> PageLimit,
                                    outcome |-> o, len |-> n,
                                    attempt |-> attempt_number + 1])
                ELSE calls
    /\ count_calls' = IF func = "cql" THEN count_calls + 1 ELSE count_calls

\* an attempt returns a value: the retry predicate is false and the value is returned
AttemptSuccess ==
    /\ rstate = "Attempting"
    /\ \E t \in {NoTotal} \cup (0..MaxTotal), n \in 0..MaxPageLen :
         /\ func = "cql" => n = 0
         /\ func = "get_all_pages_from_space" =>
                t = NoTotal /\ Len(served) + n <= MaxItems
         /\ func = "func" => t = NoTotal /\ n = 0
         /\ outcome' = [failed |-> FALSE, exc |-> NoException, isNone |-> FALSE,
                        totalSize |-> t, page |-> FreshPage(n)]
         /\ retval' = [isNone |-> FALSE, totalSize |-> t, page |-> FreshPage(n)]
         /\ served' = served \o FreshPage(n)
         /\ NoteAttempt("ok", n)
    /\ attempt_number' = attempt_number + 1
    /\ rstate' = "Success"
    /\ UNCHANGED otherVars
    /\ UNCHANGED << pc, func, args, max_retries, reraise, sleeps, raised, failures, log >>
    /\ UNCHANGED fetchVars

\* an attempt raises ApiPermissionError: the retry predicate is false, so
\* fut.result() raises it to the caller; no callback, no sleep
AttemptPermissionError ==
    /\ rstate = "Attempting"
    /\ LET ex == [kind |-> "ApiPermissionError", attempt |-> attempt_number + 1] IN
         /\ ~ retry_if_not_permission(ex)
         /\ outcome' = [NoOutcome EXCEPT !.failed = TRUE, !.exc = ex]
         /\ raised' = ex
    /\ attempt_number' = attempt_number + 1
    /\ rstate' = "Failed-NoRetry"
    /\ NoteAttempt("permission", 0)
    /\ UNCHANGED otherVars
    /\ UNCHANGED << pc, func, args, max_retries, reraise, sleeps, retval, failures,
                    log, served >>
    /\ UNCHANGED fetchVars

\* an attempt raises another exception and the stop condition does not hold:
\* the wait is computed, before_sleep_log warns, the loop goes to sleep
AttemptTransientRetry ==
    /\ rstate = "Attempting"
    /\ pc = "wrapped" \/ failures < MaxFailures
    /\ \E k \in ExceptionKinds :
         LET ex == [kind |-> k, attempt |-> attempt_number + 1] IN
         /\ retry_if_not_permission(ex)
         /\ ~ stop_after_attempt(attempt_number + 1)
         /\ outcome' = [NoOutcome EXCEPT !.failed = TRUE, !.exc = ex]
         /\ NoteAttempt(AttemptKind(ex), 0)
    /\ attempt_number' = attempt_number + 1
    /\ log' = Append(log, BeforeSleepEntry(attempt_number + 1,
                                           wait_exponential(attempt_number + 1)))
    /\ rstate' = "Waiting"
    /\ failures' = failures + 1
    /\ UNCHANGED otherVars
    /\ UNCHANGED << pc, func, args, max_retries, reraise, sleeps, retval, raised, served >>
    /\ UNCHANGED fetchVars

\* the blocking sleep between two attempts
Sleep ==
    /\ rstate = "Waiting"
    /\ sleeps' = Append(sleeps, wait_exponential(attempt_number))
    /\ rstate' = "Attempting"
    /\ UNCHANGED otherVars
    /\ UNCHANGED << pc, func, args, max_retries, reraise, attempt_number, outcome,
                    retval, raised, failures, log, calls, count_calls, served >>
    /\ UNCHANGED fetchVars

\* a callback that re-raises whatever the reraise flag says
log_retry_error_always_raise(ex, n) ==
    /\ log' = Append(log, RetryErrorEntry(n))
    /\ raised' = ex
    /\ retval' = retval
    /\ rstate' = "Failed-Reraise"

\* log_retry_error(retry_state), reached only when the stop condition holds
\* after a failed attempt whose exception the retry predicate accepts
log_retry_error(ex, n) ==
    IF ex.kind = "ApiPermissionError"
    THEN \* the warning's message names space_key and e, which are bound nowhere:
         \* building it raises NameError before anything is logged
         /\ log' = log
         /\ raised' = [kind |-> "NameError", attempt |-> n]
         /\ retval' = retval
         /\ rstate' = "Failed-Callback"
    ELSE /\ log' = Append(log, RetryErrorEntry(n))
         /\ IF reraise
            THEN /\ raised' = ex
                 /\ retval' = retval
                 /\ rstate' = "Failed-Reraise"
            ELSE /\ raised' = raised
                 /\ retval' = NoneValue
                 /\ rstate' = "Failed-Swallow"

\* an attempt raises another exception and the stop condition holds:
\* the retry_error_callback decides what the caller gets
AttemptTransientExhausted ==
    /\ rstate = "Attempting"
    /\ pc = "wrapped" \/ failures < MaxFailures
    /\ \E k \in ExceptionKinds :
         LET ex == [kind |-> k, attempt |-> attempt_number + 1] IN
         /\ retry_if_not_permission(ex)
         /\ stop_after_attempt(attempt_number + 1)
         /\ outcome' = [NoOutcome EXCEPT !.failed = TRUE, !.exc = ex]
         /\ log_retry_error(ex, attempt_number + 1)
         /\ NoteAttempt(AttemptKind(ex), 0)
    /\ attempt_number' = attempt_number + 1
    /\ failures' = failures + 1
    /\ UNCHANGED otherVars
    /\ UNCHANGED << pc, func, args, max_retries, reraise, sleeps, served >>
    /\ UNCHANGED fetchVars

Terminal ==
    rstate \in {"Success", "Failed-NoRetry", "Failed-Reraise", "Failed-Swallow",
                "Failed-Callback"}

\* ------------------------------------------------------------ download_space
\* a handler that catches ApiPermissionError only
except_ApiPermissionError(ex) ==
    IF ex.kind = "ApiPermissionError"
    THEN /\ log' = Append(log, DownloadFailedEntry)
         /\ result' = [kind |-> "None", pages |-> << >>]
         /\ escaped' = NoException
         /\ pc' = "returned"
    ELSE /\ log' = log
         /\ result' = result
         /\ escaped' = ex
         /\ pc' = "returned"

\* except Exception as e: logger.exception(...); the routine then returns None
except_Exception(ex) ==
    /\ log' = Append(log, DownloadFailedEntry)
    /\ result' = [kind |-> "None", pages |-> << >>]
    /\ escaped' = NoException
    /\ pc' = "returned"

\* a test that takes only None for an empty count
pages_count_is_None(t) == t = NoTotal

\* if not pages_count
not_pages_count(t) == t = NoTotal \/ t = 0

\* a test that also leaves the loop when the total has been reached
not_page_data_or_total_reached(rv) ==
    rv.isNone \/ rv.page = << >> \/ Len(pages) + Len(rv.page) >= pages_count

\* if not page_data
not_page_data(rv) == rv.isNone \/ rv.page = << >>

\* the reporter called with its two counts exchanged
log_progress_swapped(current_count, total_count) ==
    [current |-> total_count, total |-> current_count]

\* log_progress(len(pages), pages_count, ...) as the reporter receives it
log_progress(current_count, total_count) ==
    [current |-> current_count, total |-> total_count]

\* download_space is entered: get_page_count calls with_retry()(confluence.cql)(...)
Begin ==
    /\ pc = "start"
    /\ pc' = "get_page_count"
    /\ BeginCall("cql", 0, DefaultMaxRetries, DefaultReraise)
    /\ UNCHANGED otherVars
    /\ UNCHANGED << failures, log, calls, count_calls, served >>
    /\ UNCHANGED fetchVars

\* the wrapped count call raised: the exception reaches the top-level handler
CountRaised ==
    /\ pc = "get_page_count"
    /\ Terminal
    /\ raised # NoException
    /\ except_Exception(raised)
    /\ UNCHANGED otherVars
    /\ UNCHANGED << func, args, max_retries, reraise, failures, calls, count_calls,
                    served, pages_count, pages, start, progress >>
    /\ UNCHANGED retryVars

\* the wrapped count call returned None: None.get("totalSize") raises
\* AttributeError inside get_page_count, which reaches the top-level handler
CountNone ==
    /\ pc = "get_page_count"
    /\ Terminal
    /\ raised = NoException
    /\ retval.isNone
    /\ except_Exception([kind |-> "AttributeError", attempt |-> 0])
    /\ UNCHANGED otherVars
    /\ UNCHANGED << func, args, max_retries, reraise, failures, calls, count_calls,
                    served, pages_count, pages, start, progress >>
    /\ UNCHANGED retryVars

\* pages_count is zero or None: warn and return
CountEmpty ==
    /\ pc = "get_page_count"
    /\ Terminal
    /\ raised = NoException
    /\ ~ retval.isNone
    /\ pages_count' = retval.totalSize
    /\ not_pages_count(retval.totalSize)
    /\ log' = Append(log, NoPagesEntry)
    /\ result' = [kind |-> "None", pages |-> << >>]
    /\ pc' = "returned"
    /\ UNCHANGED otherVars
    /\ UNCHANGED << func, args, max_retries, reraise, failures, calls, count_calls,
                    served, pages, start, progress, escaped >>
    /\ UNCHANGED retryVars

\* pages_count is positive: pages, start, limit = [], 0, 2 and the first listPage call
CountPositive ==
    /\ pc = "get_page_count"
    /\ Terminal
    /\ raised = NoException
    /\ ~ retval.isNone
    /\ pages_count' = retval.totalSize
    /\ ~ not_pages_count(retval.totalSize)
    /\ pages' = << >>
    /\ start' = 0
    /\ pc' = "get_all_pages"
    /\ BeginCall("get_all_pages_from_space", 0, DefaultMaxRetries, DefaultReraise)
    /\ UNCHANGED otherVars
    /\ UNCHANGED << failures, log, calls, count_calls, served, progress, result, escaped >>

\* the wrapped listPage call raised: the exception reaches the top-level handler
PageRaised ==
    /\ pc = "get_all_pages"
    /\ Terminal
    /\ raised # NoException
    /\ except_Exception(raised)
    /\ UNCHANGED otherVars
    /\ UNCHANGED << func, args, max_retries, reraise, failures, calls, count_calls,
                    served, pages_count, pages, start, progress >>
    /\ UNCHANGED retryVars

\* if not page_data: break; return pages  (page_data is None or empty)
PageBreak ==
    /\ pc = "get_all_pages"
    /\ Terminal
    /\ raised = NoException
    /\ not_page_data(retval)
    /\ result' = [kind |-> "pages", pages |-> pages]
    /\ pc' = "returned"
    /\ UNCHANGED otherVars
    /\ UNCHANGED << func, args, max_retries, reraise, failures, log, calls, count_calls,
                    served, pages_count, pages, start, progress, escaped >>
    /\ UNCHANGED retryVars

\* only the first page-size items of the page are kept
extend_truncated(ps, page_data) ==
    ps \o SubSeq(page_data, 1, Min(Len(page_data), PageLimit))

\* pages.extend(page_data)
extend(ps, page_data) == ps \o page_data

\* the offset advanced by the page size instead of the page's length
advance_by_limit(st, page_data) == st + PageLimit

\* start += len(page_data)
advance(st, page_data) == st + Len(page_data)

\* a non-empty page: extend, advance, report progress, and call listPage again
PageAccumulate ==
    /\ pc = "get_all_pages"
    /\ Terminal
    /\ raised = NoException
    /\ ~ not_page_data(retval)
    /\ pages' = extend(pages, retval.page)
    /\ start' = advance(start, retval.page)
    /\ progress' = Append(progress, log_progress(Len(pages'), pages_count))
    /\ pc' = "get_all_pages"
    /\ BeginCall("get_all_pages_from_space", start', DefaultMaxRetries, DefaultReraise)
    /\ UNCHANGED otherVars
    /\ UNCHANGED << failures, log, calls, count_calls, served, pages_count, result, escaped >>

\* -------------------------------------------------------------- log_progress
\* a piece "<n><unit>" of a formatted time; the pieces are joined by spaces
Piece(n, unit) == [n |-> n, unit |-> unit]

\* [("d", 86400), ("h", 3600), ("m", 60), ("s", 1)]
Units == << [unit |-> "d", value |-> 86400], [unit |-> "h", value |-> 3600],
            [unit |-> "m", value |-> 60], [unit |-> "s", value |-> 1] >>

\* the loop of _format_time from unit i on
RECURSIVE format_units(_, _)
format_units(remaining_seconds, i) ==
    IF i > Len(Units) THEN << >>
    ELSE LET duration == remaining_seconds \div Units[i].value IN
         IF duration # 0
         THEN << Piece(duration, Units[i].unit) >>
                 \o format_units(remaining_seconds % Units[i].value, i + 1)
         ELSE format_units(remaining_seconds, i + 1)

\* the loop of _format_time without remaining_seconds %= value
RECURSIVE format_units_no_remainder(_, _)
format_units_no_remainder(remaining_seconds, i) ==
    IF i > Len(Units) THEN << >>
    ELSE LET duration == remaining_seconds \div Units[i].value IN
         IF duration # 0
         THEN << Piece(duration, Units[i].unit) >>
                 \o format_units_no_remainder(remaining_seconds, i + 1)
         ELSE format_units_no_remainder(remaining_seconds, i + 1)

\* _format_time that never reduces the remaining seconds
format_time_no_remainder(seconds) == format_units_no_remainder(seconds, 1)

\* _format_time(seconds)
format_time(seconds) == format_units(seconds, 1)

\* int(round(a / b)) for a >= 0, b > 0: Python rounds halves to the even integer
round_div(a, b) ==
    LET q == a \div b
        r == a % b
    IN  IF 2 * r < b THEN q
        ELSE IF 2 * r > b THEN q + 1
        ELSE IF q % 2 = 0 THEN q ELSE q + 1

\* ch * n: a string of n characters, empty when n is negative
repeat(n) == IF n > 0 THEN n ELSE 0

\* the text log_progress writes for total_count > 0; percents is kept as the
\* fraction num/den and the arithmetic on elapsed_time is taken as exact
render(current_count, total_count, elapsed_time) ==
    LET num        == Min(100 * current_count, 100 * total_count)
        filled_len == round_div(bar_len * current_count, total_count)
        elapsed    == format_time(elapsed_time)
        eta_secs   == (elapsed_time * (100 * total_count - num) * 10)
                          \div Max(10 * num, total_count)
    IN  [written       |-> TRUE,
         percents      |-> [num |-> num, den |-> total_count],
         filled        |-> repeat(filled_len),
         unfilled      |-> repeat(bar_len - filled_len),
         elapsed_str   |-> IF elapsed = << >> THEN << Piece(1, "s") >> ELSE elapsed,
         eta_str       |-> IF num > 0 THEN format_time(eta_secs) ELSE << >>,
         shown_current |-> current_count,
         shown_total   |-> IF current_count < total_count THEN total_count
                           ELSE total_count]

NoOutput ==
    [written |-> FALSE, percents |-> [num |-> 0, den |-> 1], filled |-> 0,
     unfilled |-> 0, elapsed_str |-> << >>, eta_str |-> << >>,
     shown_current |-> 0, shown_total |-> 0]

NoCall == [current |-> 0, total |-> 0, elapsed |-> 0]

\* the elapsed times tried: every small one and the borders of every unit
ElapsedInputs ==
    (0..MaxElapsed) \cup
    { 86400 * d + 3600 * h + 60 * m + sec :
        d \in 0..MaxDays, h \in {0, 1, 23}, m \in {0, 1, 59}, sec \in {0, 1, 59} }

\* if total_count <= 0: return
LogProgressNoop ==
    /\ lp_state = "called"
    /\ lp_call.total <= 0
    /\ lp_state' = "returned"
    /\ UNCHANGED << lp_call, stdout >>
    /\ UNCHANGED confVars
    /\ UNCHANGED loggerVars

\* sys.stdout.write(...); sys.stdout.flush()
LogProgressWrite ==
    /\ lp_state = "called"
    /\ lp_call.total > 0
    /\ stdout' = render(lp_call.current, lp_call.total, lp_call.elapsed)
    /\ lp_state' = "returned"
    /\ UNCHANGED lp_call
    /\ UNCHANGED confVars
    /\ UNCHANGED loggerVars

\* ---------------------------------------------------------- CloudwatchLogger
\* the logger names tried; "app.db" is a child of "app" in the logging hierarchy
Names == {"app", "app.db"}

\* the level names of the logging module
LoggingLevels ==
    ("NOTSET" :> 0) @@ ("DEBUG" :> 10) @@ ("INFO" :> 20) @@ ("WARN" :> 30) @@
    ("WARNING" :> 30) @@ ("ERROR" :> 40) @@ ("FATAL" :> 50) @@ ("CRITICAL" :> 50)

\* a level given as a number
IntLevel(k) == [str |-> FALSE, text |-> "", num |-> k]

\* a level given as a string
StrLevel(t) == [str |-> TRUE, text |-> t, num |-> 0]

\* the level arguments tried
LevelArgs ==
    {IntLevel(LoggingLevels["ERROR"]), StrLevel("debug"), StrLevel("bogus"),
     StrLevel("basic_format")}

\* the levels of the records logged
RecordLevels == {LoggingLevels["INFO"], LoggingLevels["ERROR"]}

\* str.upper() on the strings tried
upper(t) ==
    CASE t = "debug" -> "DEBUG"
      [] t = "bogus" -> "BOGUS"
      [] t = "basic_format" -> "BASIC_FORMAT"
      [] OTHER -> t

\* getattr(logging, a, default) on the names tried: the module's level
\* constants are numbers, its BASIC_FORMAT is a format string, BOGUS is missing
getattr_logging(a, default) ==
    IF a \in DOMAIN LoggingLevels THEN IntLevel(LoggingLevels[a])
    ELSE IF a = "BASIC_FORMAT" THEN StrLevel("%(levelname)s:%(name)s:%(message)s")
    ELSE default

\* Logger.setLevel's check: a number is taken, a string must be a level name
check_level(l) ==
    IF ~ l.str THEN [ok |-> TRUE, num |-> l.num]
    ELSE IF l.text \in DOMAIN LoggingLevels
         THEN [ok |-> TRUE, num |-> LoggingLevels[l.text]]
         ELSE [ok |-> FALSE, num |-> 0]

\* set_log_level(level): the level handed to setLevel, or its ValueError
set_log_level(level) ==
    check_level(IF level.str
                THEN getattr_logging(upper(level.text),
                                     IntLevel(LoggingLevels["INFO"]))
                ELSE level)

\* a logger of the logging module that nobody has asked for yet
NoLogger == [exists |-> FALSE, level |-> 0, handlers |-> << >>, propagate |-> TRUE]

\* logging.getLogger(name) the first time
NewLogger == [NoLogger EXCEPT !.exists = TRUE]

\* a name CloudwatchLogger._loggers does not hold
NoInstance == [exists |-> FALSE, id |-> 0, initialized |-> FALSE]

\* the nearest existing ancestor of a logger
parent(c) == IF c = "app.db" /\ lg["app"].exists THEN "app" ELSE "root"

\* Logger.hasHandlers(): the logger's own handlers, then, while propagate is
\* on, those of its ancestors up to the root
RECURSIVE hasHandlers(_)
hasHandlers(c) ==
    IF c = "root" THEN root_handlers
    ELSE IF lg[c].handlers # << >> THEN TRUE
    ELSE IF ~ lg[c].propagate THEN FALSE
    ELSE hasHandlers(parent(c))

\* the root logger's level (WARNING unless configured otherwise)
root_level == LoggingLevels["WARNING"]

\* Logger.getEffectiveLevel()
RECURSIVE effective_level(_, _)
effective_level(l, c) ==
    IF c = "root" THEN root_level
    ELSE IF l[c].level # 0 THEN l[c].level
    ELSE effective_level(l, parent(c))

\* the handlers Logger.callHandlers reaches from logger c
RECURSIVE reached(_, _)
reached(l, c) ==
    IF c = "root" THEN (IF root_handlers THEN {"root"} ELSE {})
    ELSE {l[c].handlers[i] : i \in 1..Len(l[c].handlers)}
            \cup (IF l[c].propagate THEN reached(l, parent(c)) ELSE {})

\* where a record of level levelno logged on logger c ends up: nowhere when
\* the logger is not enabled for it, on the handlers reached, or, when there
\* is none, on the last-resort stderr handler for WARNING and above
deliver(l, c, levelno) ==
    IF levelno < effective_level(l, c) THEN {}
    ELSE IF reached(l, c) # {} THEN reached(l, c)
    ELSE IF levelno >= LoggingLevels["WARNING"] THEN {"lastResort"} ELSE {}

\* one record logged on logger c and where it went
Emitted(l, c, levelno) ==
    [levelno |-> levelno, enabled |-> levelno >= effective_level(l, c),
     to |-> deliver(l, c, levelno)]

\* no facade operation has been made
NoOp ==
    [kind |-> "none", name |-> "", arg |-> IntLevel(0), id |-> 0,
     raised |-> FALSE, first |-> FALSE, emitted |-> << >>]

\* the body of __init__ is run again on every construction
never_initialized(name) == FALSE

\* self._initialized once __new__ has run for name
initialized_after_new(name) == loggers[name].exists /\ loggers[name].initialized

\* the instance __new__ returns for name
new_instance(name) ==
    IF loggers[name].exists THEN loggers[name]
    ELSE [exists |-> TRUE,
          id |-> Cardinality({m \in Names : loggers[m].exists}) + 1,
          initialized |-> FALSE]

\* CloudwatchLogger(level, name) for a name that is already initialised:
\* __new__ returns the stored instance and __init__ returns at once
ConstructAgain ==
    /\ pc = "logger"
    /\ n_ops < MaxOps
    /\ \E level \in LevelArgs, name \in Names :
         /\ initialized_after_new(name)
         /\ last_op' = [NoOp EXCEPT !.kind = "construct", !.name = name, !.arg = level,
                                    !.id = new_instance(name).id]
    /\ n_ops' = n_ops + 1
    /\ UNCHANGED << loggers, lg, root_handlers, cloud, init_runs >>
    /\ UNCHANGED confVars
    /\ UNCHANGED progVars

\* the first CloudwatchLogger(level, name) with a level that setLevel
\* rejects: set_log_level raises ValueError out of __init__, after
\* _initialized was set and the logger was fetched
ConstructRaises ==
    /\ pc = "logger"
    /\ n_ops < MaxOps
    /\ \E level \in LevelArgs, name \in Names :
         /\ ~ initialized_after_new(name)
         /\ ~ set_log_level(level).ok
         /\ loggers' = [loggers EXCEPT ![name] =
                           [new_instance(name) EXCEPT !.initialized = TRUE]]
         /\ lg' = [lg EXCEPT ![name] = IF @.exists THEN @ ELSE NewLogger]
         /\ init_runs' = [init_runs EXCEPT ![name] = @ + 1]
         /\ last_op' = [NoOp EXCEPT !.kind = "construct", !.name = name, !.arg = level,
                                    !.id = new_instance(name).id,
                                    !.raised = TRUE, !.first = TRUE]
    /\ n_ops' = n_ops + 1
    /\ UNCHANGED << root_handlers, cloud >>
    /\ UNCHANGED confVars
    /\ UNCHANGED progVars

\* the first CloudwatchLogger(level, name) when hasHandlers() is false: the
\* level ends as DEBUG, the console handler is added, then the cloud handler
\* or, when its setup raises, an error record is logged, then the file
\* handler; propagate is switched off
ConstructWired ==
    /\ pc = "logger"
    /\ n_ops < MaxOps
    /\ \E level \in LevelArgs, name \in Names, cloud_ok \in BOOLEAN :
         /\ ~ initialized_after_new(name)
         /\ set_log_level(level).ok
         /\ ~ hasHandlers(name)
         /\ LET base    == IF lg[name].exists THEN lg[name] ELSE NewLogger
                console == [lg EXCEPT ![name] =
                               [base EXCEPT !.level = LoggingLevels["DEBUG"],
                                            !.handlers = << "console" >>]]
            IN  /\ lg' = [lg EXCEPT ![name] =
                            [base EXCEPT
                               !.level = LoggingLevels["DEBUG"],
                               !.handlers = IF cloud_ok
                                            THEN << "console", "cloud", "file" >>
                                            ELSE << "console", "file" >>,
                               !.propagate = FALSE]]
                /\ last_op' = [NoOp EXCEPT
                                 !.kind = "construct", !.name = name, !.arg = level,
                                 !.id = new_instance(name).id, !.first = TRUE,
                                 !.emitted =
                                     IF cloud_ok THEN << >>
                                     ELSE << Emitted(console, name,
                                                     LoggingLevels["ERROR"]) >>]
         /\ loggers' = [loggers EXCEPT ![name] =
                           [new_instance(name) EXCEPT !.initialized = TRUE]]
         /\ cloud' = [cloud EXCEPT ![name] = IF cloud_ok THEN "ok" ELSE "failed"]
         /\ init_runs' = [init_runs EXCEPT ![name] = @ + 1]
    /\ n_ops' = n_ops + 1
    /\ UNCHANGED root_handlers
    /\ UNCHANGED confVars
    /\ UNCHANGED progVars

\* the first CloudwatchLogger(level, name) when hasHandlers() is true: the
\* level ends as DEBUG, no handler is added, propagate is switched off
ConstructUnwired ==
    /\ pc = "logger"
    /\ n_ops < MaxOps
    /\ \E level \in LevelArgs, name \in Names :
         /\ ~ initialized_after_new(name)
         /\ set_log_level(level).ok
         /\ hasHandlers(name)
         /\ lg' = [lg EXCEPT ![name] =
                     [(IF @.exists THEN @ ELSE NewLogger) EXCEPT
                         !.level = LoggingLevels["DEBUG"],
                         !.propagate = FALSE]]
         /\ loggers' = [loggers EXCEPT ![name] =
                           [new_instance(name) EXCEPT !.initialized = TRUE]]
         /\ init_runs' = [init_runs EXCEPT ![name] = @ + 1]
         /\ last_op' = [NoOp EXCEPT !.kind = "construct", !.name = name, !.arg = level,
                                    !.id = new_instance(name).id, !.first = TRUE]
    /\ n_ops' = n_ops + 1
    /\ UNCHANGED << root_handlers, cloud >>
    /\ UNCHANGED confVars
    /\ UNCHANGED progVars

\* instance.set_log_level(level) on a constructed instance: the level is set,
\* or setLevel raises ValueError and the level stays
SetLogLevel ==
    /\ pc = "logger"
    /\ n_ops < MaxOps
    /\ \E level \in LevelArgs, name \in Names :
         /\ loggers[name].exists
         /\ lg' = IF set_log_level(level).ok
                  THEN [lg EXCEPT ![name].level = set_log_level(level).num]
                  ELSE lg
         /\ last_op' = [NoOp EXCEPT !.kind = "set_log_level", !.name = name, !.arg = level,
                                    !.id = loggers[name].id,
                                    !.raised = ~ set_log_level(level).ok]
    /\ n_ops' = n_ops + 1
    /\ UNCHANGED << loggers, root_handlers, cloud, init_runs >>
    /\ UNCHANGED confVars
    /\ UNCHANGED progVars

\* instance.log(level, message) (info, error, ...) on a constructed instance
Log ==
    /\ pc = "logger"
    /\ n_ops < MaxOps
    /\ \E levelno \in RecordLevels, name \in Names :
         /\ loggers[name].exists
         /\ last_op' = [NoOp EXCEPT !.kind = "log", !.name = name, !.arg = IntLevel(levelno),
                                    !.id = loggers[name].id,
                                    !.emitted = << Emitted(lg, name, levelno) >>]
    /\ n_ops' = n_ops + 1
    /\ UNCHANGED << loggers, lg, root_handlers, cloud, init_runs >>
    /\ UNCHANGED confVars
    /\ UNCHANGED progVars

\* ------------------------------------------------------------ specifications
InitCommon ==
    /\ func \in {"func"}
    /\ args = 0
    /\ attempt_number = 0
    /\ outcome = NoOutcome
    /\ sleeps = << >>
    /\ retval = NoneValue
    /\ raised = NoException
    /\ failures = 0
    /\ log = << >>
    /\ pages_count = Unassigned
    /\ pages = << >>
    /\ start = 0
    /\ calls = << >>
    /\ count_calls = 0
    /\ served = << >>
    /\ progress = << >>
    /\ result = NoResult
    /\ escaped = NoException

\* no log_progress call is being made
InitProgressIdle ==
    /\ lp_state = "idle"
    /\ lp_call = NoCall
    /\ stdout = NoOutput

\* no CloudwatchLogger has been constructed; the root logger has no handlers
InitLoggerIdle ==
    /\ loggers = [n \in Names |-> NoInstance]
    /\ lg = [n \in Names |-> NoLogger]
    /\ root_handlers = FALSE
    /\ cloud = [n \in Names |-> "untried"]
    /\ init_runs = [n \in Names |-> 0]
    /\ last_op = NoOp
    /\ n_ops = 0

\* download_space has been called and has not yet run
Init ==
    /\ pc = "start"
    /\ rstate = "Idle"
    /\ max_retries = DefaultMaxRetries
    /\ reraise = DefaultReraise
    /\ InitCommon
    /\ InitProgressIdle
    /\ InitLoggerIdle

\* log_progress(current_count, total_count, elapsed_time) has been called
InitProgress ==
    /\ pc = "log_progress"
    /\ rstate = "Idle"
    /\ max_retries = DefaultMaxRetries
    /\ reraise = DefaultReraise
    /\ InitCommon
    /\ lp_state = "called"
    /\ lp_call \in [current : 0..MaxCurrent, total : (-1)..MaxShown,
                    elapsed : ElapsedInputs]
    /\ stdout = NoOutput
    /\ InitLoggerIdle

\* no CloudwatchLogger has been constructed yet; the root logger may already
\* have handlers, as after logging.basicConfig
InitLogger ==
    /\ pc = "logger"
    /\ rstate = "Idle"
    /\ max_retries = DefaultMaxRetries
    /\ reraise = DefaultReraise
    /\ InitCommon
    /\ InitProgressIdle
    /\ loggers = [n \in Names |-> NoInstance]
    /\ lg = [n \in Names |-> NoLogger]
    /\ root_handlers \in BOOLEAN
    /\ cloud = [n \in Names |-> "untried"]
    /\ init_runs = [n \in Names |-> 0]
    /\ last_op = NoOp
    /\ n_ops = 0

\* a bare wrapped call with_retry(max_retries, reraise)(func)() has been entered
InitRetry ==
    /\ pc = "wrapped"
    /\ rstate = "Attempting"
    /\ max_retries \in 1..MaxRetries
    /\ reraise \in BOOLEAN
    /\ InitCommon
    /\ InitProgressIdle
    /\ InitLoggerIdle

Next ==
    \/ Begin
    \/ AttemptSuccess
    \/ AttemptPermissionError
    \/ AttemptTransientRetry
    \/ Sleep
    \/ AttemptTransientExhausted
    \/ CountRaised
    \/ CountNone
    \/ CountEmpty
    \/ CountPositive
    \/ PageRaised
    \/ PageBreak
    \/ PageAccumulate

NextRetry ==
    \/ AttemptSuccess
    \/ AttemptPermissionError
    \/ AttemptTransientRetry
    \/ Sleep
    \/ AttemptTransientExhausted

NextLogger ==
    \/ ConstructAgain
    \/ ConstructRaises
    \/ ConstructWired
    \/ ConstructUnwired
    \/ SetLogLevel
    \/ Log

NextProgress ==
    \/ LogProgressNoop
    \/ LogProgressWrite

Spec == Init /\ [][Next]_vars

SpecRetry == InitRetry /\ [][NextRetry]_vars

SpecProgress == InitProgress /\ [][NextProgress]_vars

SpecLogger == InitLogger /\ [][NextLogger]_vars

TypeOK ==
    /\ pc \in {"start", "get_page_count", "get_all_pages", "returned", "wrapped",
              "log_progress", "logger"}
    /\ n_ops \in 0..MaxOps
    /\ \A n \in Names : lg[n].level \in {LoggingLevels[k] : k \in DOMAIN LoggingLevels}
    /\ lp_state \in {"idle", "called", "returned"}
    /\ rstate \in {"Idle", "Attempting", "Waiting", "Success", "Failed-NoRetry",
                   "Failed-Reraise", "Failed-Swallow", "Failed-Callback"}
    /\ attempt_number \in 0..MaxRetries + 1
    /\ Len(pages) <= MaxItems + 1

\* ------------------------------------------------------- derived quantities
Entries(level) == SelectSeq(log, LAMBDA e : e.level = level)
EntriesFrom(src) == SelectSeq(log, LAMBDA e : e.src = src)

\* a wrapped call ran out of attempts on a non-permission error
Exhausted == rstate \in {"Failed-Reraise", "Failed-Swallow"}

\* the listPage attempts that raised a non-permission error at offset o
TransientAt(o) ==
    SelectSeq(calls, LAMBDA c : c.start = o /\ c.outcome = "transient")

\* listPage raised a non-permission error on every one of its attempts at some offset
ListExhausted ==
    \E i \in 1..Len(calls) :
        /\ calls[i].outcome = "transient"
        /\ calls[i].attempt = DefaultMaxRetries
        /\ Len(TransientAt(calls[i].start)) = DefaultMaxRetries

\* the lengths of the first k listPage attempts, summed
RECURSIVE SumLen(_, _)
SumLen(cs, k) == IF k <= 0 THEN 0 ELSE cs[k].len + SumLen(cs, k - 1)

\* -------------------------------------------------------------------- C1
\* C1: when the count succeeds with a positive total and listPage raises a
\* non-permission error on every attempt at some offset, download_space
\* returns an absent result (never the accumulated pages) and exactly one
\* error-level entry with traceback is logged.
C1_AbsentOnListExhaustion ==
    (pc = "returned" /\ pages_count > 0 /\ ListExhausted) =>
        /\ result.kind = "None"
        /\ Len(Entries("ERROR")) = 1
        /\ \A i \in 1..Len(log) : log[i].level = "ERROR" => log[i].traceback

\* -------------------------------------------------------------------- C2
\* C2: an attempt that fails with ApiPermissionError is the last attempt of
\* the wrapped call, no sleep follows it, and the wrapped call returns None
\* to its caller instead of raising.
C2_PermissionYieldsNone ==
    (pc = "wrapped" /\ outcome.failed /\ outcome.exc.kind = "ApiPermissionError") =>
        /\ rstate = "Failed-NoRetry"
        /\ Len(sleeps) = attempt_number - 1
        /\ raised = NoException
        /\ retval = NoneValue

\* -------------------------------------------------------------------- C3
\* C3: with reraise=True and any max_retries >= 1, an operation that raises a
\* non-permission error on every attempt is invoked exactly max_retries
\* times and then the exception of the final attempt is raised.
C3_ExactlyMaxRetriesThenRaise ==
    (pc = "wrapped" /\ reraise /\ failures = attempt_number) =>
        /\ attempt_number <= max_retries
        /\ Terminal <=> (attempt_number = max_retries /\ rstate # "Waiting")
        /\ Terminal =>
              /\ rstate = "Failed-Reraise"
              /\ raised = [kind |-> "Transient", attempt |-> max_retries]

C3_Witness ==
    /\ pc = "wrapped" /\ reraise /\ max_retries = 3
    /\ rstate = "Failed-Reraise" /\ attempt_number = 3 /\ failures = 3

\* -------------------------------------------------------------------- C4
\* C4: on exhaustion the policy logs exactly one error-level entry carrying
\* the attempt count and the call's arguments and re-raises the final
\* exception; it returns None only when configured to swallow, and with its
\* default arguments, as download_space uses it, it re-raises.
C4_DefaultReraisesOnExhaustion ==
    (pc \in {"get_page_count", "get_all_pages"} /\ Exhausted) =>
        /\ Len(Entries("ERROR")) = 1
        /\ log[Len(log)] = RetryErrorEntry(DefaultMaxRetries)
        /\ raised = outcome.exc
        /\ raised.kind = "Transient"

\* -------------------------------------------------------------------- C5
\* an exception is about to reach the top level of download_space
ExceptionAtTopLevel ==
    /\ pc \in {"get_page_count", "get_all_pages"}
    /\ Terminal
    /\ raised # NoException \/ (pc = "get_page_count" /\ retval.isNone)

\* C5: download_space never lets an exception escape: it always returns
\* normally, and whenever an exception reaches its top level the result is
\* absent and an error-level entry with traceback is logged.
C5_NoExceptionEscapes ==
    /\ [](escaped = NoException)
    /\ [](pc = "returned" => result.kind \in {"None", "pages"})
    /\ [][ExceptionAtTopLevel =>
            /\ pc' = "returned"
            /\ result'.kind = "None"
            /\ escaped' = NoException
            /\ Len(log') = Len(log) + 1
            /\ log'[Len(log')].level = "ERROR"
            /\ log'[Len(log')].traceback]_vars

\* a permission error at a later offset reached the top level after pages were kept
C5_Witness ==
    /\ pc = "returned"
    /\ result.kind = "None"
    /\ pages # << >>
    /\ raised.kind = "ApiPermissionError"
    /\ log # << >> /\ log[Len(log)] = DownloadFailedEntry

\* the count call ran out of attempts and None.get raised AttributeError
C5_WitnessCount ==
    /\ pc = "returned"
    /\ func = "cql" /\ rstate = "Failed-Swallow"
    /\ result.kind = "None"
    /\ log[Len(log)] = DownloadFailedEntry

\* -------------------------------------------------------------------- C6
\* listPage never failed
ListNeverFailed == \A i \in 1..Len(calls) : calls[i].outcome = "ok"

\* C6: when the count is positive and listPage never fails and returns
\* non-empty pages p1..pn and then an empty page, download_space returns
\* p1 ++ ... ++ pn in order, after exactly n+1 listPage calls whose offsets
\* are 0, |p1|, |p1|+|p2|, ... and whose page size is always 2.
C6_ReturnsConcatenation ==
    (pc = "returned" /\ pages_count > 0 /\ ListNeverFailed) =>
        /\ result = [kind |-> "pages", pages |-> served]
        /\ result.pages = [i \in 1..Len(served) |-> i]
        /\ calls # << >>
        /\ calls[Len(calls)].len = 0
        /\ \A i \in 1..Len(calls) :
              /\ calls[i].limit = 2
              /\ calls[i].start = SumLen(calls, i - 1)
              /\ i < Len(calls) => calls[i].len > 0

\* count = 5, pages [a,b], [c,d], [e], [] at offsets 0, 2, 4, 5
C6_Witness ==
    /\ pc = "returned"
    /\ pages_count = 5
    /\ ListNeverFailed
    /\ Len(calls) = 4
    /\ calls[1].start = 0 /\ calls[1].len = 2
    /\ calls[2].start = 2 /\ calls[2].len = 2
    /\ calls[3].start = 4 /\ calls[3].len = 1
    /\ calls[4].start = 5 /\ calls[4].len = 0
    /\ result = [kind |-> "pages", pages |-> << 1, 2, 3, 4, 5 >>]

\* -------------------------------------------------------------------- C7
\* the count call returned and pages_count is zero or None
CountZeroOrAbsent == pc = "returned" /\ pages_count \in {0, NoTotal}

\* C7 as stated: a zero or absent count gives exactly one warning-level
\* entry, no listPage call, no progress output and an absent result.
C7_ExactlyOneWarning ==
    CountZeroOrAbsent =>
        /\ Len(Entries("WARNING")) = 1
        /\ calls = << >>
        /\ progress = << >>
        /\ result.kind = "None"

\* C7 amended: a zero or absent count gives exactly one warning-level entry
\* of download_space itself, preceded by one before-sleep warning for every
\* count attempt that was retried (so one warning in all only when the count
\* succeeded on its first attempt), no error-level entry, no listPage call,
\* no progress output and an absent result.
C7_OneWarningPlusRetries ==
    CountZeroOrAbsent =>
        /\ log # << >> /\ log[Len(log)] = NoPagesEntry
        /\ Len(SelectSeq(log, LAMBDA e : e = NoPagesEntry)) = 1
        /\ Len(Entries("WARNING")) = 1 + (count_calls - 1)
        /\ Len(EntriesFrom("before_sleep")) = count_calls - 1
        /\ count_calls = 1 => Len(Entries("WARNING")) = 1
        /\ Entries("ERROR") = << >>
        /\ calls = << >>
        /\ progress = << >>
        /\ result.kind = "None"

\* the count returned 0 on its third attempt
C7_Witness ==
    /\ CountZeroOrAbsent
    /\ pages_count = 0
    /\ count_calls = 3
    /\ Len(Entries("WARNING")) = 3

\* -------------------------------------------------------------------- C8
\* C8 as stated: once the accumulated count has reached the total reported
\* by the count call, no further listPage call is issued.
C8_StopsAtTotal ==
    \A i \in 1..Len(calls) : calls[i].start < pages_count

\* a listPage attempt after which the loop is left
Stopping(c) ==
    \/ c.outcome = "ok" /\ c.len = 0
    \/ c.outcome = "permission"
    \/ c.outcome = "transient" /\ c.attempt = DefaultMaxRetries

\* C8 amended: the pagination loop is left the first time the wrapped
\* listPage call returns an empty or absent page or raises; reaching the
\* total reported by the count call does not end it: every non-empty page is
\* followed by another listPage call, whatever the accumulated count.
C8_StopsOnlyOnEmptyPage ==
    /\ \A i \in 1..(Len(calls) - 1) : ~ Stopping(calls[i])
    /\ (pc = "returned" /\ calls # << >>) => Stopping(calls[Len(calls)])
    /\ (pc = "get_all_pages" /\ Terminal /\ ~ Stopping(calls[Len(calls)])) =>
            ENABLED PageAccumulate

\* a non-empty page was requested at an offset that had already reached the total
C8_Witness ==
    /\ pc = "returned"
    /\ result.kind = "pages"
    /\ \E i \in 1..Len(calls) :
          /\ calls[i].start >= pages_count
          /\ calls[i].outcome = "ok"
          /\ calls[i].len > 0

\* -------------------------------------------------------------------- C9
NonEmptyOk == SelectSeq(calls, LAMBDA c : c.outcome = "ok" /\ c.len > 0)

\* a non-empty page has been returned and is not yet accumulated
PagePending ==
    pc = "get_all_pages" /\ rstate = "Success" /\ retval.page # << >>

\* C9: the Progress Reporter is invoked exactly once after each non-empty
\* page and never for the empty page, with current equal to the number of
\* items accumulated so far and total equal to the count sampled before
\* pagination; the current values are strictly increasing.
C9_ProgressPerNonEmptyPage ==
    /\ Len(progress) = Len(NonEmptyOk) - (IF PagePending THEN 1 ELSE 0)
    /\ \A i \in 1..Len(progress) :
          /\ progress[i].total = pages_count
          /\ progress[i].current = SumLen(NonEmptyOk, i)
          /\ i > 1 => progress[i].current > progress[i - 1].current
    /\ (progress # << >> /\ ~ PagePending) =>
          progress[Len(progress)].current = Len(pages)

\* three non-empty pages and the empty page: three reports, none for the empty page
C9_Witness ==
    /\ pc = "returned"
    /\ Len(progress) = 3
    /\ Len(calls) = 4
    /\ calls[4].outcome = "ok" /\ calls[4].len = 0
    /\ progress[3].current = Len(pages)

\* ------------------------------------------------------------------- C10
\* C10: the wait after failed attempt k is min(2^(k-1), 5): 1, 2, 4, 5, 5, ...;
\* it starts at 1, doubles, stays within 1..5, and with the default 5
\* attempts the time slept before exhaustion is 12.
C10_BackoffSchedule ==
    pc = "wrapped" =>
        /\ \A k \in 1..Len(sleeps) :
              /\ sleeps[k] = Min(Pow2(k - 1), 5)
              /\ sleeps[k] >= 1 /\ sleeps[k] <= 5
              /\ k = 1 => sleeps[k] = 1
              /\ k > 1 => sleeps[k] = Min(2 * sleeps[k - 1], 5)
        /\ rstate = "Attempting" => Len(sleeps) = attempt_number
        /\ rstate # "Attempting" => Len(sleeps) = attempt_number - 1
        /\ (max_retries = 5 /\ Exhausted) => SumSeq(sleeps) = 12

C10_Witness ==
    /\ pc = "wrapped"
    /\ max_retries = 5
    /\ Exhausted
    /\ sleeps = << 1, 2, 4, 5 >>

\* ------------------------------------------------------------------- C11
BeforeSleepWarnings ==
    SelectSeq(log, LAMBDA e : e.src = "before_sleep" /\ e.level = "WARNING")

\* C11: each sleep is immediately preceded by exactly one warning-level entry
\* and follows a failed transient attempt; a run of k attempts emits exactly
\* k-1 before-sleep warnings, and neither a warning nor a sleep follows a
\* successful, a permission-denied or the exhausting attempt.
C11_WarningBeforeEachSleep ==
    /\ [](pc = "wrapped" =>
            /\ Len(BeforeSleepWarnings) =
                  Len(sleeps) + (IF rstate = "Waiting" THEN 1 ELSE 0)
            /\ Len(Entries("WARNING")) = Len(BeforeSleepWarnings)
            /\ rstate = "Waiting" =>
                  /\ log[Len(log)].src = "before_sleep"
                  /\ log[Len(log)].level = "WARNING"
                  /\ outcome.failed /\ outcome.exc.kind = "Transient"
                  /\ attempt_number < max_retries
            /\ Terminal =>
                  /\ Len(BeforeSleepWarnings) = attempt_number - 1
                  /\ Len(sleeps) = attempt_number - 1)
    /\ [][(pc = "wrapped" /\ sleeps' # sleeps) =>
            /\ rstate = "Waiting"
            /\ Len(sleeps') = Len(sleeps) + 1
            /\ log' = log
            /\ log[Len(log)].level = "WARNING"
            /\ log[Len(log)].src = "before_sleep"
            /\ log[Len(log)].sleep = sleeps'[Len(sleeps')]
            /\ outcome.failed /\ outcome.exc.kind = "Transient"]_vars
    /\ [][(pc = "wrapped" /\ Terminal') =>
            /\ sleeps' = sleeps
            /\ Len(Entries("WARNING")') = Len(Entries("WARNING"))]_vars

\* four attempts, all failed: three warnings, three sleeps, none after the last
C11_Witness ==
    /\ pc = "wrapped"
    /\ max_retries = 4
    /\ Exhausted
    /\ attempt_number = 4
    /\ Len(BeforeSleepWarnings) = 3
    /\ Len(sleeps) = 3

\* ------------------------------------------------------------------- C12
\* the ways a wrapped call ends, by what its caller observes
EndedSuccess ==
    /\ ~ outcome.failed /\ attempt_number > 0
    /\ raised = NoException
    /\ retval = [isNone |-> FALSE, totalSize |-> outcome.totalSize,
                 page |-> outcome.page]

EndedNoRetry ==
    /\ outcome.failed /\ outcome.exc.kind = "ApiPermissionError"
    /\ raised = outcome.exc

EndedReraise ==
    /\ outcome.failed /\ outcome.exc.kind = "Transient"
    /\ attempt_number = max_retries
    /\ raised = outcome.exc

EndedSwallow ==
    /\ outcome.failed /\ outcome.exc.kind = "Transient"
    /\ attempt_number = max_retries
    /\ raised = NoException
    /\ retval = NoneValue

\* a call that succeeds after transient failures returns that attempt's
\* value after exactly failures + 1 attempts and logs no error
SuccessAfterRetries ==
    rstate = "Success" =>
        /\ EndedSuccess
        /\ attempt_number = failures + 1
        /\ attempt_number <= max_retries
        /\ Entries("ERROR") = << >>

\* C12 as stated: a wrapped call starts in Attempting and, after at most N
\* attempts, ends in exactly one of Success, Failed-NoRetry, Failed-Reraise.
C12_ThreeTerminalStates ==
    pc = "wrapped" =>
        /\ attempt_number = 0 => rstate = "Attempting"
        /\ attempt_number <= max_retries
        /\ Terminal =>
              /\ rstate \in {"Success", "Failed-NoRetry", "Failed-Reraise"}
              /\ Cardinality({b \in {<< 1, EndedSuccess >>, << 2, EndedNoRetry >>,
                                     << 3, EndedReraise >>} : b[2]}) = 1
        /\ SuccessAfterRetries

\* C12 amended: a wrapped call starts in Attempting and, after at most N
\* attempts, ends in exactly one of Success, Failed-NoRetry, Failed-Reraise
\* (exhausted with reraise=True) or, with reraise=False (the default), a
\* swallowed exhaustion that returns None; a call that fails transiently on
\* attempts 1..k-1 and succeeds on attempt k <= N returns that attempt's
\* value after exactly k attempts and logs no error.
C12_FourTerminalStates ==
    pc = "wrapped" =>
        /\ attempt_number = 0 => rstate = "Attempting"
        /\ attempt_number <= max_retries
        /\ ~ Terminal => rstate \in {"Attempting", "Waiting"}
        /\ Terminal =>
              /\ Cardinality({b \in {<< 1, EndedSuccess >>, << 2, EndedNoRetry >>,
                                     << 3, EndedReraise >>, << 4, EndedSwallow >>} :
                                b[2]}) = 1
              /\ rstate = "Success" <=> EndedSuccess
              /\ rstate = "Failed-NoRetry" <=> EndedNoRetry
              /\ rstate = "Failed-Reraise" <=> EndedReraise
              /\ rstate = "Failed-Swallow" <=> EndedSwallow
              /\ EndedReraise => reraise
              /\ EndedSwallow => ~ reraise
        /\ SuccessAfterRetries

\* two transient failures, then success on the third attempt
C12_Witness ==
    /\ pc = "wrapped"
    /\ rstate = "Success"
    /\ attempt_number = 3
    /\ failures = 2
    /\ max_retries >= 3

\* the swallowed exhaustion
C12_WitnessSwallow ==
    pc = "wrapped" /\ rstate = "Failed-Swallow" /\ EndedSwallow

\* ------------------------------------------------------------------- C13
\* C13: the offset passed to listPage equals the number of items accumulated
\* so far; it starts at 0, grows by exactly the length of each non-empty page
\* (below, at or above the page size) and is unchanged by retried failures.
C13_OffsetEqualsAccumulated ==
    /\ pc = "get_all_pages" => (args = start /\ start = Len(pages))
    /\ calls # << >> => calls[1].start = 0
    /\ \A i \in 1..Len(calls) : calls[i].start = SumLen(calls, i - 1)
    /\ \A i \in 1..(Len(calls) - 1) :
          IF calls[i].outcome = "ok" /\ calls[i].len > 0
          THEN /\ calls[i + 1].start = calls[i].start + calls[i].len
               /\ calls[i + 1].start > calls[i].start
          ELSE calls[i + 1].start = calls[i].start

\* a page above the page size, a page below it and a retried failure
C13_Witness ==
    /\ pc = "returned"
    /\ \E i \in 1..Len(calls) : calls[i].outcome = "ok" /\ calls[i].len = 3
    /\ \E i \in 1..Len(calls) : calls[i].outcome = "ok" /\ calls[i].len = 1
    /\ \E i \in 1..(Len(calls) - 1) :
          /\ calls[i].outcome = "transient"
          /\ calls[i].start > 0
          /\ calls[i + 1].start = calls[i].start

\* ------------------------------------------------------------------- C19
\* download_space returned after a wrapped call raised ApiPermissionError
PermissionDenied == pc = "returned" /\ raised.kind = "ApiPermissionError"

\* C19 as stated: a call that raises a permission-denied error is attempted
\* exactly once with no sleep, download_space returns an absent result after
\* exactly one error-level entry, and the permission branch of
\* log_retry_error is never executed.
C19_DeniedCallAttemptedOnce ==
    /\ rstate # "Failed-Callback"
    /\ PermissionDenied =>
          /\ attempt_number = 1
          /\ sleeps = << >>
          /\ result.kind = "None"
          /\ Len(Entries("ERROR")) = 1

\* C19 amended: the permission-denied attempt is the last attempt of its
\* call: no retry and no sleep follow it (a call denied on its first attempt
\* is attempted exactly once with no sleep; earlier transient failures of
\* the same call may have been retried); download_space returns an absent
\* result, discarding the accumulated pages, after exactly one error-level
\* entry, and the permission branch of log_retry_error is never executed.
C19_DeniedAttemptIsLast ==
    /\ rstate # "Failed-Callback"
    /\ raised.kind # "NameError"
    /\ \A i \in 1..(Len(calls) - 1) : calls[i].outcome # "permission"
    /\ PermissionDenied =>
          /\ rstate = "Failed-NoRetry"
          /\ outcome.exc.attempt = attempt_number
          /\ Len(sleeps) = attempt_number - 1
          /\ attempt_number = 1 <=> sleeps = << >>
          /\ result = [kind |-> "None", pages |-> << >>]
          /\ Len(Entries("ERROR")) = 1
          /\ log[Len(log)] = DownloadFailedEntry

\* listPage is denied on its second attempt at a later offset, pages are discarded
C19_Witness ==
    /\ PermissionDenied
    /\ func = "get_all_pages_from_space"
    /\ pages # << >>
    /\ attempt_number = 2
    /\ result.kind = "None"

\* ------------------------------------------------------------------- C14
\* log_progress has written its line for a positive total
ProgressWritten == lp_state = "returned" /\ lp_call.total > 0

\* C14: for every total > 0 and current >= 0, current > total included, the
\* displayed current value is min(current, total) and never exceeds the
\* displayed total.
C14_ShownCurrentCapped ==
    ProgressWritten =>
        /\ stdout.written
        /\ stdout.shown_total = lp_call.total
        /\ stdout.shown_current = Min(lp_call.current, lp_call.total)
        /\ stdout.shown_current <= stdout.shown_total

\* ------------------------------------------------------------------- C15
\* C15: for every total > 0 and current >= 0, current > total included, the
\* bar is exactly 50 characters wide: filled plus unfilled is 50 and the
\* filled count lies between 0 and 50.
C15_BarIsFiftyWide ==
    ProgressWritten =>
        /\ stdout.filled + stdout.unfilled = 50
        /\ stdout.filled >= 0
        /\ stdout.filled <= 50

\* ------------------------------------------------------------------- C16
\* the seconds a unit stands for
UnitSeconds(u) ==
    IF u = "d" THEN 86400 ELSE IF u = "h" THEN 3600 ELSE IF u = "m" THEN 60 ELSE 1

\* the rank of a unit, largest first
UnitRank(u) ==
    IF u = "d" THEN 1 ELSE IF u = "h" THEN 2 ELSE IF u = "m" THEN 3 ELSE 4

RECURSIVE TextSeconds(_)
TextSeconds(txt) ==
    IF txt = << >> THEN 0
    ELSE Head(txt).n * UnitSeconds(Head(txt).unit) + TextSeconds(Tail(txt))

\* C16: the elapsed-time text lists d, h, m, s largest first with
\* d = e div 86400, h < 24, m < 60, s < 60 and 86400d + 3600h + 60m + s = e,
\* omits every unit whose value is zero, and is "1s" when e is 0
\* (90 -> "1m 30s", 0 -> "1s", 86461 -> "1d 1m 1s").
C16_ElapsedText ==
    ProgressWritten =>
        LET e   == lp_call.elapsed
            txt == stdout.elapsed_str
        IN  /\ e = 0 => txt = << Piece(1, "s") >>
            /\ e > 0 =>
                  /\ TextSeconds(txt) = e
                  /\ \A i \in 1..Len(txt) :
                        /\ txt[i].unit \in {"d", "h", "m", "s"}
                        /\ txt[i].n > 0
                        /\ txt[i].unit = "d" => txt[i].n = e \div 86400
                        /\ txt[i].unit = "h" => txt[i].n < 24
                        /\ txt[i].unit = "m" => txt[i].n < 60
                        /\ txt[i].unit = "s" => txt[i].n < 60
                        /\ i > 1 => UnitRank(txt[i - 1].unit) < UnitRank(txt[i].unit)
                  /\ (e >= 86400) <=> (\E i \in 1..Len(txt) : txt[i].unit = "d")
            /\ e = 90 => txt = << Piece(1, "m"), Piece(30, "s") >>
            /\ e = 86461 => txt = << Piece(1, "d"), Piece(1, "m"), Piece(1, "s") >>

C16_Witness ==
    /\ ProgressWritten
    /\ lp_call.elapsed = 86461
    /\ stdout.elapsed_str = << Piece(1, "d"), Piece(1, "m"), Piece(1, "s") >>

\* ------------------------------------------------------------------- C17
\* the first construction for a name ran to its last statement
Completed(name) == loggers[name].initialized /\ ~ lg[name].propagate

\* the handlers the claim promises for a name
Promised(name) ==
    {"console", "file"} \cup (IF cloud[name] = "ok" THEN {"cloud"} ELSE {})

\* C17: after the first construction for a name, whatever the logging
\* configuration was before (root logger with handlers included), every
\* record logged through the facade that the logger is enabled for reaches a
\* console handler, the file handler and, when its setup succeeded, the cloud
\* handler; a first construction that completes, with or without a cloud
\* handler failure, leaves the console and file handlers attached.
C17_DeliveredToAllHandlers ==
    /\ (last_op.kind = "log" /\ Completed(last_op.name)) =>
          \A i \in 1..Len(last_op.emitted) :
              last_op.emitted[i].enabled =>
                  Promised(last_op.name) \subseteq last_op.emitted[i].to
    /\ (last_op.kind = "construct" /\ last_op.first /\ ~ last_op.raised) =>
          Promised(last_op.name) \subseteq
              {lg[last_op.name].handlers[i] :
                  i \in 1..Len(lg[last_op.name].handlers)}

\* ------------------------------------------------------------------- C18
\* C18: constructions with the same name return the same instance and
\* different names have different instances; the body of __init__ runs
\* exactly once per constructed name; a construction for a name that already
\* has its instance changes neither the instance nor the number of handlers
\* on the name's logger, and no later operation makes that number grow.
C18_OneInstancePerName ==
    /\ [](\A n \in Names :
            /\ init_runs[n] <= 1
            /\ loggers[n].exists => init_runs[n] = 1)
    /\ [](\A a, b \in Names :
            (a # b /\ loggers[a].exists /\ loggers[b].exists) =>
                loggers[a].id # loggers[b].id)
    /\ [](last_op.kind = "construct" =>
            /\ loggers[last_op.name].exists
            /\ last_op.id = loggers[last_op.name].id)
    /\ [][\A n \in Names :
            loggers[n].exists =>
                /\ loggers'[n] = loggers[n]
                /\ Len(lg'[n].handlers) <= Len(lg[n].handlers)
                /\ init_runs'[n] = init_runs[n]]_vars

\* a name with wired handlers is constructed again beside another name
C18_Witness ==
    /\ last_op.kind = "construct"
    /\ ~ last_op.first
    /\ lg[last_op.name].handlers # << >>
    /\ \A n \in Names : loggers[n].exists

\* ------------------------------------------------------------------- C20
\* the level argument is a number or the name of a level
Recognised(level) == ~ level.str \/ upper(level.text) \in DOMAIN LoggingLevels

\* C20: right after the first construction for a name its logger's level is
\* DEBUG whatever level was passed; a later construction for the name leaves
\* the level as it is; the level of a constructed name changes only in a
\* set_log_level call; set_log_level with a string that names no level sets
\* INFO.
C20_LevelOnlyBySetLogLevel ==
    /\ []((last_op.kind = "construct" /\ last_op.first) =>
            /\ ~ last_op.raised
            /\ lg[last_op.name].level = LoggingLevels["DEBUG"])
    /\ [][(last_op'.kind = "construct" /\ ~ last_op'.first) => lg' = lg]_vars
    /\ [][\A n \in Names :
            (loggers[n].exists /\ lg'[n].level # lg[n].level) =>
                (last_op'.kind = "set_log_level" /\ last_op'.name = n)]_vars
    /\ []((last_op.kind = "set_log_level" /\ ~ Recognised(last_op.arg)) =>
            /\ ~ last_op.raised
            /\ lg[last_op.name].level = LoggingLevels["INFO"])

====
